---- MODULE Spec2Model ----
(***************************************************************************)
(* A model of the PoA relayer (evm/python-scripts/poa-relayer):            *)
(* PoARelayer.run polls every configured chain for Message logs of the     *)
(* escrow contract, and PoARelayer.execute signs each of them and submits  *)
(* processMessage to the destination chain.                                *)
(*                                                                         *)
(* The ledgers are the environment: blocks are mined (Mine), the tip can   *)
(* be reorganised away (Reorg), and every RPC call can raise.  The relayer *)
(* has no exception handler anywhere, so an exception raised inside run    *)
(* leaves the while-loop: pc = "crashed".                                  *)
(*                                                                         *)
(* The configuration passed to __init__ is taken to hold the keys the code *)
(* reads ("w3", "provider", "GI", "relayer", "key", "confirmations"), and  *)
(* the topic constant compared in signTransaction is taken to be the topic *)
(* of the Message event.                                                   *)
(*                                                                         *)
(* The encodings (the subject and the signature built by signTransaction,  *)
(* payloadConstructor and decodePayload of the test fixtures) are pure     *)
(* functions of their arguments.  They are operators over byte strings,    *)
(* applied under CodecSpec, whose initial states draw the arguments.       *)
(***************************************************************************)
EXTENDS Integers, Sequences, FiniteSets, TLC

(* ------------------------------ bounds --------------------------------- *)
\* blocks mined in total over all chains
MaxBlocks == 3
\* transactions mined in total over all chains
MaxTx == 2
\* reorganisations in total
MaxReorgs == 1
\* executions attempted in total (caps the history of a relayer that refetches)
MaxExec == 3
\* the "confirmations" entry of every chain (20 in the default configuration)
Confirmations == 1
\* the widest range, in blocks, a log query service with a span limit answers
MaxSpan == 2
\* the longest message, in bytes, an encoding is computed for
MaxMsgLen == 2

(* --------------------------- configuration ----------------------------- *)
\* keys of self.chains, in iteration order
ChainOrder == <<1, 2>>
Chains == {ChainOrder[i] : i \in 1..Len(ChainOrder)}
\* destinationIdentifier values an event can carry; 3 is no configured chain
Dests == Chains \cup {3}

MessageTopic == "Message"
OtherTopic == "Other"

\* a log of a transaction receipt
MsgLog(d) == [topic |-> MessageTopic, dest |-> d]
OtherLog == [topic |-> OtherTopic, dest |-> 0]

\* the receipts the environment can mine
TxShapes ==
    {<<MsgLog(d)>> : d \in Dests}
        \cup {<<MsgLog(1), MsgLog(2)>>}

\* the blocks the environment can mine: empty, one receipt, or two receipts
\* with a message for the same destination
Blocks ==
    {<<>>} \cup {<<s>> : s \in TxShapes}
        \cup {<<(<<MsgLog(2)>>), (<<MsgLog(2)>>)>>}

VARIABLES
    height,        \* w3.eth.blockNumber of every chain
    txs,           \* mined transactions: [id, chain, block, logs]
    mined,         \* blocks mined so far
    txCount,       \* transactions mined so far
    reorgs,        \* reorganisations so far
    startHeight,   \* blocknumbers as loaded before the loop
    blocknumbers,  \* run's cursor of every chain
    nonce,         \* self.chains[c]["nonce"]
    nonce0,        \* getTransactionCount at construction
    pc,            \* "poll", "exec", "sending", "sleep" or "crashed"
    cur,           \* index in ChainOrder of the chain of the for-loop
    logs,          \* the logs of the range being relayed
    logPos,        \* position in logs of the for-loop
    inflight,      \* send_raw_transaction calls that have not returned
    codec,         \* the encoding being computed, outside the loop of run
    range,         \* history: the range of logs, the nonces when it was taken
    idle,          \* history: the chains whose last poll found no new block
    covered,       \* history: how often each block was in a fetch_logs range
    executions,    \* history: the calls of execute and their outcome
    signCalls,     \* history: number of signMessage calls
    failures       \* history: number of exceptions raised

vars == <<codec, height, mined, txs, txCount, reorgs, startHeight, blocknumbers,
          nonce, nonce0, pc, cur, logs, logPos, inflight, range, idle, covered,
          executions, signCalls, failures>>

env == <<height, mined, txs, txCount, reorgs>>
hist == <<range, idle, covered, executions, signCalls, failures>>

(* ------------------------------ helpers -------------------------------- *)
NextPc(i) == IF i > Len(ChainOrder) THEN "sleep" ELSE "poll"

\* the Message events of a transaction, as getLogs returns them
EventsOfTx(t) ==
    {[chain |-> t.chain, block |-> t.block, tx |-> t.id, logIndex |-> i,
      dest |-> t.logs[i].dest] :
        i \in {j \in 1..Len(t.logs) : t.logs[j].topic = MessageTopic}}

EventsInRange(chain, fromBlock, toBlock) ==
    UNION {EventsOfTx(t) :
        t \in {u \in txs : u.chain = chain /\ fromBlock <= u.block
                           /\ u.block <= toBlock}}

\* block, then position of the transaction in the block, then log index
Before(a, b) ==
    \/ a.block < b.block
    \/ a.block = b.block /\ a.tx < b.tx
    \/ a.block = b.block /\ a.tx = b.tx /\ a.logIndex < b.logIndex

RECURSIVE SortLogs(_)
SortLogs(S) ==
    IF S = {} THEN <<>>
    ELSE LET m == CHOOSE x \in S : \A y \in S \ {x} : Before(x, y)
         IN  <<m>> \o SortLogs(S \ {m})

\* fetch_logs, had the query returned the newest log first
fetch_logsNewestFirst(chain, fromBlock, toBlock) ==
    LET sorted == SortLogs(EventsInRange(chain, fromBlock, toBlock))
    IN  [i \in 1..Len(sorted) |-> sorted[Len(sorted) + 1 - i]]

\* the getLogs calls fetch_logs makes (lines 110-113): one, for the whole
\* range
LogQueries(chain, fromBlock, toBlock) ==
    <<[fromBlock |-> fromBlock, toBlock |-> toBlock]>>

\* PoARelayer.fetch_logs
fetch_logs(chain, fromBlock, toBlock) ==
    LET queries == LogQueries(chain, fromBlock, toBlock)
    IN  SortLogs(UNION {EventsInRange(chain, queries[k].fromBlock,
                                      queries[k].toBlock) :
                            k \in DOMAIN queries})

\* PoARelayer.checkConfirmations
checkConfirmations(chainId, confirmations) == Confirmations >= confirmations

\* PoARelayer.signTransaction: the receipt is read, the confirmations are
\* asserted, then every log of the receipt with the Message topic is signed
signTransaction(chainId, transactionHash, fault) ==
    LET found == {t \in txs : t.id = transactionHash}
    IN  IF found = {}
        THEN [err |-> "TransactionNotFound", conf |-> -1, final |-> "na",
              calls |-> 0, signatures |-> 0]
        ELSE
          LET transaction == CHOOSE t \in found : TRUE
              confirmations == height[chainId] - transaction.block
              msgs == {i \in 1..Len(transaction.logs) :
                          transaction.logs[i].topic = MessageTopic}
          IN  IF ~checkConfirmations(chainId, confirmations)
              THEN [err |-> "NotEnoughConfirmations", conf |-> confirmations,
                    final |-> "no", calls |-> 0, signatures |-> 0]
              ELSE IF fault = "sign" /\ msgs # {}
              THEN [err |-> "SigningError", conf |-> confirmations,
                    final |-> "yes", calls |-> 1, signatures |-> 0]
              ELSE [err |-> "none", conf |-> confirmations, final |-> "yes",
                    calls |-> Cardinality(msgs),
                    signatures |-> Cardinality(msgs)]

\* the rank of logs[logPos] among the logs of the range with its destination
Rank(event) ==
    Cardinality({j \in 1..logPos : logs[j].dest = event.dest})

\* execute, had it signed before it resolved the destination
ExecuteResultSignFirst(fromChain, event, fault) ==
    LET toChain == event.dest
        s == signTransaction(fromChain, event.tx, fault)
        used == IF toChain \in Chains THEN nonce[toChain] ELSE -1
    IN  [src |-> fromChain, tx |-> event.tx, logIndex |-> event.logIndex,
         block |-> event.block, dest |-> toChain,
         fromBlock |-> range.fromBlock, toBlock |-> range.toBlock,
         rank |-> Rank(event),
         n0 |-> IF toChain \in Chains THEN range.nonce[toChain] ELSE -1,
         conf |-> s.conf, final |-> s.final, calls |-> s.calls,
         outcome |-> IF s.err # "none" THEN s.err
                     ELSE IF toChain \notin Chains THEN "UnknownChain"
                     ELSE IF s.signatures # 1 THEN "MessageCount"
                     ELSE IF fault = "broadcast" THEN "BroadcastRejected"
                     ELSE "ok",
         nonce |-> IF s.err = "none" /\ toChain \in Chains
                      /\ s.signatures = 1
                   THEN used ELSE -1]

\* the test of line 121, had it let any positive number of signatures pass
AtLeastOneMessage(signatures) == signatures >= 1

\* line 121: assert len(signatures) == 1
OneMessage(signatures) == signatures = 1

\* PoARelayer.execute up to the broadcast: what it raises, and what it did
ExecuteResult(fromChain, event, fault) ==
    LET toChain == event.dest
        base == [src |-> fromChain, tx |-> event.tx,
                 logIndex |-> event.logIndex, block |-> event.block,
                 dest |-> toChain, fromBlock |-> range.fromBlock,
                 toBlock |-> range.toBlock, rank |-> Rank(event),
                 n0 |-> IF toChain \in Chains THEN range.nonce[toChain]
                        ELSE -1]
    IN  IF toChain \notin Chains
        THEN base @@ [outcome |-> "UnknownChain", conf |-> -1,
                      final |-> "na", calls |-> 0, nonce |-> -1]
        ELSE
          LET s == signTransaction(fromChain, event.tx, fault)
          IN  IF s.err # "none"
              THEN base @@ [outcome |-> s.err, conf |-> s.conf,
                            final |-> s.final, calls |-> s.calls,
                            nonce |-> -1]
              ELSE IF ~OneMessage(s.signatures)
              THEN base @@ [outcome |-> "MessageCount", conf |-> s.conf,
                            final |-> s.final, calls |-> s.calls,
                            nonce |-> -1]
              ELSE IF fault = "broadcast"
              THEN base @@ [outcome |-> "BroadcastRejected",
                            conf |-> s.conf, final |-> s.final,
                            calls |-> s.calls, nonce |-> nonce[toChain]]
              ELSE base @@ [outcome |-> "ok", conf |-> s.conf,
                            final |-> s.final, calls |-> s.calls,
                            nonce |-> nonce[toChain]]

\* the nonce, had it been stepped by two
BumpNonceTwice(toChain) == [nonce EXCEPT ![toChain] = nonce[toChain] + 2]

\* the nonces, had the one of every chain been stepped
BumpNonceAll(toChain) == [c \in Chains |-> nonce[c] + 1]

\* the nonce, had it not been stepped
BumpNonceNot(toChain) == nonce

\* line 143: the nonce after a broadcast that returned
BumpNonce(toChain) == [nonce EXCEPT ![toChain] = nonce[toChain] + 1]

\* the cursor, had it been left on the last block of the range
AdvanceCursorInclusive(chain, fromBlock, toBlock) ==
    [blocknumbers EXCEPT ![chain] = toBlock]

\* the cursor, had it been left where it was
AdvanceCursorStale(chain, fromBlock, toBlock) == blocknumbers

\* line 167: the cursor after the range [fromBlock, toBlock] was taken
AdvanceCursor(chain, fromBlock, toBlock) ==
    [blocknumbers EXCEPT ![chain] = toBlock + 1]

\* the test of line 166, had every poll taken a range
RangeAlways(fromBlock, toBlock) == TRUE

\* line 166
RangeNonEmpty(fromBlock, toBlock) == fromBlock <= toBlock

\* the blocks of [fromBlock, toBlock] counted once more
Cover(chain, fromBlock, toBlock) ==
    [covered EXCEPT ![chain] =
        [b \in DOMAIN covered[chain] |->
            IF fromBlock <= b /\ b <= toBlock THEN covered[chain][b] + 1
            ELSE covered[chain][b]]]

\* no range is being relayed
NoRange == [fromBlock |-> 0, toBlock |-> -1, nonce |-> [c \in Chains |-> 0]]

(* ------------------------------- states -------------------------------- *)
\* the state when the while-loop of run is entered: the nonces were read by
\* __init__, the heights by the first for-loop of run
Started ==
    /\ height = [c \in Chains |-> 1]
    /\ txs = {}
    /\ txCount = 0
    /\ mined = 0
    /\ reorgs = 0
    /\ startHeight = height
    /\ blocknumbers = height
    /\ nonce0 = [c \in Chains |-> 3 + 2 * c]
    /\ nonce = nonce0
    /\ pc = "poll"
    /\ cur = 1
    /\ logs = <<>>
    /\ logPos = 1
    /\ inflight = [c \in Chains |-> 0]
    /\ range = NoRange
    /\ idle = {}
    /\ covered = [c \in Chains |-> [b \in 0..(MaxBlocks + 2) |-> 0]]
    /\ executions = <<>>
    /\ signCalls = 0
    /\ failures = 0

\* no encoding is being computed
NoCodec == [op |-> "none"]

Init == Started /\ codec = NoCodec

(* ----------------------------- environment ----------------------------- *)
\* the relayer is about to read the ledger of chain c.  A ledger is seen only
\* through the calls made for the chain being served (blockNumber and getLogs
\* in run, block_number and the receipt in signTransaction), so its blocks
\* are taken to arrive just before such a call.
Served(c) == pc \in {"poll", "exec"} /\ ChainOrder[cur] = c

\* a block is mined on chain c, holding the receipts shapes
Mine(c, shapes) ==
    /\ Served(c)
    /\ mined < MaxBlocks
    /\ mined' = mined + 1
    /\ txCount + Len(shapes) <= MaxTx
    /\ height' = [height EXCEPT ![c] = height[c] + 1]
    /\ txs' = txs \cup {[id |-> txCount + i, chain |-> c,
                         block |-> height[c] + 1, logs |-> shapes[i]] :
                            i \in 1..Len(shapes)}
    /\ txCount' = txCount + Len(shapes)
    /\ UNCHANGED codec
    /\ UNCHANGED <<reorgs, startHeight, blocknumbers, nonce, nonce0, pc, cur,
                   logs, logPos, inflight, hist>>

\* the tip block of chain c, mined since the relayer started, is dropped
Reorg(c) ==
    /\ Served(c)
    /\ reorgs < MaxReorgs
    /\ height[c] > startHeight[c]
    /\ height[c] > 0
    /\ height' = [height EXCEPT ![c] = height[c] - 1]
    /\ txs' = {t \in txs : ~(t.chain = c /\ t.block = height[c])}
    /\ reorgs' = reorgs + 1
    /\ UNCHANGED codec
    /\ UNCHANGED <<mined, txCount, startHeight, blocknumbers, nonce, nonce0,
                   pc, cur, logs, logPos, inflight, hist>>

(* ------------------------------- relayer ------------------------------- *)
\* one iteration of "for chain in chains" up to the fetch (lines 161-171)
Poll(fault) ==
    /\ pc = "poll"
    /\ LET chain == ChainOrder[cur]
           fromBlock == blocknumbers[chain]
           toBlock == height[chain]
       IN  IF RangeNonEmpty(fromBlock, toBlock)
           THEN /\ blocknumbers' = AdvanceCursor(chain, fromBlock, toBlock)
                /\ idle' = idle \ {chain}
                /\ covered' = Cover(chain, fromBlock, toBlock)
                /\ IF fault = "fetch"
                   THEN /\ pc' = "crashed"
                        /\ failures' = failures + 1
                        /\ UNCHANGED <<cur, logs, logPos, range>>
                   ELSE LET got == fetch_logs(chain, fromBlock, toBlock)
                        IN  /\ failures' = failures
                            /\ logPos' = 1
                            /\ IF got = <<>>
                               THEN /\ cur' = cur + 1
                                    /\ pc' = NextPc(cur + 1)
                                    /\ UNCHANGED <<logs, range>>
                               ELSE /\ cur' = cur
                                    /\ pc' = "exec"
                                    /\ logs' = got
                                    /\ range' = [fromBlock |-> fromBlock,
                                                 toBlock |-> toBlock,
                                                 nonce |-> nonce]
           ELSE /\ fault = "none"
                /\ idle' = idle \cup {chain}
                /\ cur' = cur + 1
                /\ pc' = NextPc(cur + 1)
                /\ UNCHANGED <<blocknumbers, covered, logs, logPos, range,
                               failures>>
    /\ UNCHANGED codec
    /\ UNCHANGED <<env, startHeight, nonce, nonce0, inflight, executions,
                   signCalls>>

\* one iteration of "for log in logs": self.execute(chain, log) (line 175),
\* up to the call of send_raw_transaction (line 142)
Execute(fault) ==
    /\ pc = "exec"
    /\ Len(executions) < MaxExec
    /\ LET chain == ChainOrder[cur]
           event == logs[logPos]
           r == ExecuteResult(chain, event, fault)
       IN  /\ signCalls' = signCalls + r.calls
           /\ IF r.outcome = "ok"
              THEN /\ pc' = "sending"
                   /\ inflight' = [inflight EXCEPT ![event.dest] = @ + 1]
                   /\ UNCHANGED <<executions, failures>>
              ELSE /\ r.outcome # "SigningError" \/ fault = "sign"
                   /\ pc' = "crashed"
                   /\ executions' = Append(executions, r)
                   /\ failures' = failures + 1
                   /\ UNCHANGED inflight
    /\ UNCHANGED codec
    /\ UNCHANGED <<env, startHeight, blocknumbers, nonce, nonce0, cur, logs,
                   logPos, range, idle, covered>>

\* send_raw_transaction returns or raises; the rest of execute (lines
\* 142-147) and the next iteration of the for-loop
Return(fault) ==
    /\ pc = "sending"
    /\ LET chain == ChainOrder[cur]
           event == logs[logPos]
           r == ExecuteResult(chain, event, fault)
       IN  /\ executions' = Append(executions, r)
           /\ inflight' = [inflight EXCEPT ![event.dest] = @ - 1]
           /\ IF r.outcome = "ok"
              THEN /\ nonce' = BumpNonce(event.dest)
                   /\ failures' = failures
                   /\ IF logPos = Len(logs)
                      THEN /\ cur' = cur + 1
                           /\ pc' = NextPc(cur + 1)
                           /\ logs' = <<>>
                           /\ logPos' = 1
                           /\ range' = NoRange
                      ELSE /\ logPos' = logPos + 1
                           /\ pc' = "exec"
                           /\ UNCHANGED <<cur, logs, range>>
              ELSE /\ pc' = "crashed"
                   /\ failures' = failures + 1
                   /\ UNCHANGED <<nonce, logs, logPos, cur, range>>
    /\ UNCHANGED codec
    /\ UNCHANGED <<env, startHeight, blocknumbers, nonce0, idle, covered,
                   signCalls>>

\* sleep(wait), then the next tick (line 177)
Sleep ==
    /\ pc = "sleep"
    /\ pc' = "poll"
    /\ cur' = 1
    /\ UNCHANGED codec
    /\ UNCHANGED <<env, startHeight, blocknumbers, nonce, nonce0, logs,
                   logPos, inflight, hist>>

\* the RPC and signing calls may raise
Relayer ==
    \/ \E f \in {"none", "fetch"} : Poll(f)
    \/ \E f \in {"none", "sign"} : Execute(f)
    \/ \E f \in {"none", "broadcast"} : Return(f)
    \/ Sleep

\* no call raises unless the relayer's own checks do
RelayerNoFault ==
    \/ Poll("none")
    \/ Execute("none")
    \/ Return("none")
    \/ Sleep

Ledgers ==
    \/ \E c \in Chains, b \in Blocks : Mine(c, b)
    \/ \E c \in Chains : Reorg(c)

Next == Ledgers \/ Relayer

Spec == Init /\ [][Next]_vars

\* the loop is scheduled fairly and the ledgers accept every call
FairNext == Ledgers \/ RelayerNoFault

FairSpec == Init /\ [][FairNext]_vars /\ WF_vars(RelayerNoFault)

(* ------------------------------ encodings ------------------------------ *)
\* bytes are numbers 0..255, byte strings are sequences of them, a hex string
\* is a sequence of hex digits 0..15

\* the bytes of an ABI word
WordLen == 32
\* the bytes of an address
AddressLen == 20

Zeros(n) == [i \in 1..n |-> 0]

\* data[a:b] of Python
Slice(data, a, b) ==
    SubSeq(data, a + 1, IF b < Len(data) THEN b ELSE Len(data))

\* convert.to_bytes of an integer: big-endian in size bytes
RECURSIVE to_bytes(_, _)
to_bytes(val, size) ==
    IF size = 0 THEN <<>>
    ELSE Append(to_bytes(val \div 256, size - 1), val % 256)

\* convert.to_bytes of an address or a byte string: zeros are put in front
left_pad(val, size) == Zeros(size - Len(val)) \o val

\* convert.to_uint of a byte string: big-endian
RECURSIVE to_uint(_)
to_uint(b) ==
    IF b = <<>> THEN 0
    ELSE to_uint(SubSeq(b, 1, Len(b) - 1)) * 256 + b[Len(b)]

\* bytes.fromhex
fromhex(h) == [i \in 1..(Len(h) \div 2) |-> 16 * h[2 * i - 1] + h[2 * i]]

\* bytes.hex
hex(b) ==
    [i \in 1..(2 * Len(b)) |->
        IF i % 2 = 1 THEN b[(i + 1) \div 2] \div 16 ELSE b[i \div 2] % 16]

\* encode_abi of one "address", of one "uint8" and of one "bytes32" value
abi_address(a) == left_pad(a, WordLen)
abi_uint8(v) == to_bytes(v, WordLen)
abi_bytes32(b) == b \o Zeros(WordLen - Len(b))

\* the subject, had a tag byte been put in front of the emitter
newMessageTagged(emitter, message) ==
    hex(<<1>> \o abi_address(emitter) \o fromhex(message))

\* line 94: the subject that signTransaction signs, a hex string
newMessage(emitter, message) ==
    hex(abi_address(emitter) \o fromhex(message))

\* the signature, had it been packed without padding
signatureBlobPacked(v, r, s) == to_bytes(v, 1) \o r \o s

\* line 103: the signature as it is handed to processMessage
signatureBlob(v, r, s) == abi_uint8(v) \o abi_bytes32(r) \o abi_bytes32(s)

\* the address, had it been taken from the front of the word
evmBytes32ToAddressFront(bytes32) == Slice(bytes32, 0, AddressLen)

\* functions.py, evmBytes32ToAddress: the address in bytes32[12:]
evmBytes32ToAddress(bytes32) ==
    Slice(bytes32, WordLen - AddressLen, Len(bytes32))

\* functions.py, payloadConstructor
payloadConstructor(_from, _to, _who, _U, _assetIndex, _minOut, _escrowAmount, _escrowToken, _context) ==
    _context
        \o left_pad(_from, 32)
        \o left_pad(_to, 32)
        \o _who
        \o to_bytes(_U, 32)
        \o to_bytes(_assetIndex, 1)
        \o to_bytes(_minOut, 32)
        \o to_bytes(_escrowAmount, 32)
        \o left_pad(_escrowToken, 32)
        \o to_bytes(0, 2)

\* functions.py, decodePayload
decodePayload(data) ==
    LET context == data[1]
        customDataLength == to_uint(Slice(data, 226, 228))
    IN  IF context % 2 = 1
        THEN [_context |-> data[1],
              _fromPool |-> evmBytes32ToAddress(Slice(data, 1, 33)),
              _toPool |-> evmBytes32ToAddress(Slice(data, 33, 65)),
              _who |-> evmBytes32ToAddress(Slice(data, 65, 97)),
              _LU |-> to_uint(Slice(data, 97, 129)),
              _minOut |-> to_uint(Slice(data, 129, 161)),
              _escrowAmount |-> to_uint(Slice(data, 161, 193))]
        ELSE [_context |-> data[1],
              _fromPool |-> evmBytes32ToAddress(Slice(data, 1, 33)),
              _toPool |-> evmBytes32ToAddress(Slice(data, 33, 65)),
              _who |-> evmBytes32ToAddress(Slice(data, 65, 97)),
              _U |-> to_uint(Slice(data, 97, 129)),
              _assetIndex |-> to_uint(<<data[130]>>),
              _minOut |-> to_uint(Slice(data, 130, 162)),
              _escrowAmount |-> to_uint(Slice(data, 162, 194)),
              _escrowToken |-> evmBytes32ToAddress(Slice(data, 194, 226)),
              customDataLength |-> customDataLength,
              _customDataTarget |->
                  IF customDataLength > 0
                  THEN evmBytes32ToAddress(Slice(data, 228, 260))
                  ELSE "None",
              _customData |->
                  IF customDataLength > 0
                  THEN Slice(data, 260, 260 + customDataLength - 32)
                  ELSE "None"]

\* the values the encodings are computed for
ByteValues == {0, 171, 255}
Messages == UNION {[1..k -> ByteValues] : k \in 0..MaxMsgLen}
Addresses == {<<171>> \o Zeros(AddressLen - 2) \o <<1>>,
              [i \in 1..AddressLen |-> 255]}
Words == {abi_address(a) : a \in Addresses}
            \cup {[i \in 1..WordLen |-> 171]}
Uints == {0, 16909060}

SubjectInputs ==
    {[op |-> "subject", stage |-> "input", emitter |-> e, message |-> m,
      out |-> <<>>] : e \in Addresses, m \in Messages}

SignatureInputs ==
    {[op |-> "signature", stage |-> "input", v |-> v, r |-> r, s |-> s,
      out |-> <<>>] : v \in {27, 28}, r \in Words, s \in Words}

PayloadInputs ==
    {[op |-> "payload", stage |-> "input", from |-> a[1], to |-> a[2],
      escrowToken |-> a[3], who |-> who, U |-> u[1], minOut |-> u[2],
      escrowAmount |-> u[3], assetIndex |-> assetIndex,
      context |-> context, out |-> <<>>, decoded |-> NoCodec] :
        a \in Addresses \X Addresses \X Addresses, who \in Words,
        u \in Uints \X Uints \X Uints, assetIndex \in {1, 255},
        context \in {0, 2, 254}}

\* everything but codec
relayer == <<env, startHeight, blocknumbers, nonce, nonce0, pc, cur, logs,
             logPos, inflight, hist>>

CodecInit ==
    /\ Started
    /\ codec \in SubjectInputs \cup SignatureInputs \cup PayloadInputs

\* signTransaction builds the subject of a Message log (lines 91-94); the
\* message argument of the log is a hex string
PackSubject ==
    /\ codec.op = "subject"
    /\ codec.stage = "input"
    /\ codec' = [codec EXCEPT
                    !.stage = "done",
                    !.out = newMessage(codec.emitter, hex(codec.message))]
    /\ UNCHANGED relayer

\* signTransaction encodes the signature (line 103)
EncodeSignature ==
    /\ codec.op = "signature"
    /\ codec.stage = "input"
    /\ codec' = [codec EXCEPT
                    !.stage = "done",
                    !.out = signatureBlob(codec.v, codec.r, codec.s)]
    /\ UNCHANGED relayer

\* a test calls payloadConstructor
ConstructPayload ==
    /\ codec.op = "payload"
    /\ codec.stage = "input"
    /\ codec' = [codec EXCEPT
                    !.stage = "built",
                    !.out = payloadConstructor(
                                codec.from, codec.to, codec.who, codec.U,
                                codec.assetIndex, codec.minOut,
                                codec.escrowAmount, codec.escrowToken,
                                to_bytes(codec.context, 1))]
    /\ UNCHANGED relayer

\* a test calls decodePayload on what payloadConstructor returned
DecodePayload ==
    /\ codec.op = "payload"
    /\ codec.stage = "built"
    /\ codec' = [codec EXCEPT !.stage = "done",
                              !.decoded = decodePayload(codec.out)]
    /\ UNCHANGED relayer

CodecNext ==
    \/ PackSubject
    \/ EncodeSignature
    \/ ConstructPayload
    \/ DecodePayload

CodecSpec == CodecInit /\ [][CodecNext]_vars

(* ------------------------------- claims -------------------------------- *)
\* the calls of execute whose broadcast returned a transaction hash
OkExecs == {i \in 1..Len(executions) : executions[i].outcome = "ok"}

SameEvent(a, b) == a.src = b.src /\ a.tx = b.tx /\ a.logIndex = b.logIndex

SameRange(a, b) ==
    a.src = b.src /\ a.fromBlock = b.fromBlock /\ a.toBlock = b.toBlock

\* the step is an iteration of the for-loop over the chains
PollStep == pc = "poll" /\ <<pc, cur>>' # <<pc, cur>>

FinalIffThresholdReached ==
    \A i \in 1..Len(executions) :
        executions[i].final # "na" =>
            (executions[i].final = "yes"
                <=> executions[i].conf >= Confirmations)

\* C3: the nonce of every chain is its initial value plus the number of
\* successful submissions to the chain; a failed execute adds nothing.
NonceCountsSubmissions ==
    \A c \in Chains :
        nonce[c] = nonce0[c]
            + Cardinality({i \in OkExecs : executions[i].dest = c})

\* a submission succeeded and a later broadcast was rejected
SubmittedThenRejected ==
    /\ OkExecs # {}
    /\ \E i \in 1..Len(executions) :
        /\ executions[i].outcome = "BroadcastRejected"
        /\ \E j \in OkExecs : j < i /\ executions[j].dest = executions[i].dest

\* C4: an event returned by the poll is submitted exactly when it is final
\* at that moment (current height - event block >= threshold).
RelayedIffFinal ==
    \A i \in 1..Len(executions) :
        executions[i].outcome \in {"ok", "NotEnoughConfirmations"} =>
            (executions[i].outcome = "ok"
                <=> executions[i].conf >= Confirmations)

\* the transaction t holds one Message for a configured chain, was mined at
\* or after the startup height and has reached the confirmation threshold
Eligible(t) ==
    \E x \in txs :
        /\ x.id = t
        /\ Len(x.logs) = 1
        /\ x.logs[1].topic = MessageTopic
        /\ x.logs[1].dest \in Chains
        /\ x.block >= startHeight[x.chain]
        /\ height[x.chain] - x.block >= Confirmations

RelayedOrOrphaned(t) ==
    \/ \E i \in OkExecs : executions[i].tx = t
    \/ ~ \E x \in txs : x.id = t

\* C5: every Message mined at or after the startup height for a configured
\* destination whose block reaches the confirmation threshold is eventually
\* submitted (unless its block is reorganised away), when the loop is
\* scheduled fairly and no call raises.
NoConfirmedMessageDropped ==
    \A t \in 1..MaxTx : [](Eligible(t) => <>RelayedOrOrphaned(t))

\* C6: when execute is called with an event whose destination is not a
\* configured chain, the signer is not invoked, nothing is built or
\* broadcast and no nonce changes.
RoutingRejection ==
    [][(pc = "exec" /\ logs[logPos].dest \notin Chains) =>
          /\ signCalls' = signCalls
          /\ nonce' = nonce
          /\ \/ executions' = executions
             \/ /\ Len(executions') = Len(executions) + 1
                /\ executions'[Len(executions')].outcome = "UnknownChain"
                /\ executions'[Len(executions')].nonce = -1]_vars

\* execute was called with an event for a chain that is not configured
UnknownDestinationExecuted ==
    \E i \in 1..Len(executions) :
        executions[i].dest \notin Chains
            /\ executions[i].outcome = "UnknownChain"

\* C7: a failure of an event or of a tick does not terminate the loop.
LoopSurvivesFailure == failures > 0 => pc # "crashed"

\* C8: a poll of a chain whose cursor is above its height (no new block
\* since the last poll) fetches no logs, executes nothing and leaves the
\* cursor unchanged.
IdempotentPoll ==
    [][(PollStep /\ blocknumbers[ChainOrder[cur]] > height[ChainOrder[cur]])
          => /\ blocknumbers' = blocknumbers
             /\ covered' = covered
             /\ executions' = executions
             /\ nonce' = nonce
             /\ pc' \in {"poll", "sleep"}]_vars

\* a chain was polled, and polled again with no new block
PolledTwiceWithoutNewBlock ==
    \E c \in idle :
        /\ blocknumbers[c] = height[c] + 1
        /\ covered[c][height[c]] = 1

\* C9: the events of one polled range for the same destination are
\* submitted in log order (block, then log index), the k-th of them with
\* nonce n0 + k - 1, n0 being the destination's nonce when the range was
\* taken.
ConsecutiveNonces ==
    /\ \A i \in OkExecs :
          executions[i].nonce = executions[i].n0 + executions[i].rank - 1
    /\ \A i \in OkExecs, j \in OkExecs :
          (i < j /\ SameRange(executions[i], executions[j])
                 /\ executions[i].dest = executions[j].dest)
            => /\ Before(executions[i], executions[j])
               /\ executions[j].nonce = executions[i].nonce
                    + Cardinality({k \in OkExecs :
                          /\ i <= k /\ k < j
                          /\ SameRange(executions[i], executions[k])
                          /\ executions[i].dest = executions[k].dest})

\* two events of one range were submitted to the same destination
TwoRelayedInOneRange ==
    \E i \in OkExecs, j \in OkExecs :
        /\ i < j
        /\ SameRange(executions[i], executions[j])
        /\ executions[i].dest = executions[j].dest

\* C10: a poll with fromBlock <= toBlock leaves the cursor at toBlock + 1,
\* also when the fetch raises, and relaying the range does not touch it.
CursorAdvancesUnconditionally ==
    [][/\ (PollStep /\ blocknumbers[ChainOrder[cur]] <= height[ChainOrder[cur]])
            => blocknumbers'[ChainOrder[cur]] = height[ChainOrder[cur]] + 1
       /\ pc = "exec" => blocknumbers' = blocknumbers]_vars

\* the fetch raised, or an execute raised, and the cursor is past the range
CursorAdvancedDespiteFailure ==
    /\ pc = "crashed"
    /\ \E c \in Chains :
          /\ blocknumbers[c] = height[c] + 1
          /\ covered[c][height[c]] = 1
          /\ \/ executions = <<>>
             \/ /\ executions # <<>>
                /\ executions[Len(executions)].src = c
                /\ executions[Len(executions)].outcome = "BroadcastRejected"

\* C11: at most one submission per destination chain is in flight at any
\* time, and no submission to a chain is attempted with the sequence number
\* of an earlier accepted one, also when several source chains route to the
\* same destination within one tick.
SerialisedSubmissions ==
    /\ \A c \in Chains : inflight[c] <= 1
    /\ \A i \in OkExecs, j \in 1..Len(executions) :
          (i < j /\ executions[j].nonce # -1
                 /\ executions[j].dest = executions[i].dest)
            => executions[j].nonce > executions[i].nonce

\* a submission is in flight for a destination that an earlier source chain
\* of the same tick has already submitted to
TwoSourcesOneDestinationInTick ==
    /\ pc = "sending"
    /\ cur > 1
    /\ inflight[logs[logPos].dest] = 1
    /\ \E i \in OkExecs :
          /\ executions[i].src = ChainOrder[1]
          /\ executions[i].dest = logs[logPos].dest
          /\ blocknumbers[executions[i].src] = executions[i].toBlock + 1
          /\ executions[i].src \notin idle

\* C12: for every chain the cursor blocknumbers[chain] never decreases, also
\* over a tick in which the observed height is lower than at an earlier tick.
CursorMonotone ==
    [][\A c \in Chains : blocknumbers'[c] >= blocknumbers[c]]_vars

\* a chain was polled after its height had fallen below the blocks already
\* taken
PolledBelowCursor ==
    \E c \in idle :
        /\ ~Served(c)
        /\ pc # "crashed"
        /\ blocknumbers[c] > height[c] + 1

\* C16: every block number b of a chain with startHeight <= b < cursor has
\* been inside exactly one fetch_logs range of that chain, and no block
\* number below the start height or at or above the cursor inside any.
ExactlyOnceCoverage ==
    \A c \in Chains : \A b \in DOMAIN covered[c] :
        covered[c][b] = IF startHeight[c] <= b /\ b < blocknumbers[c]
                        THEN 1 ELSE 0

\* a chain has had a second range fetched, starting where the first ended
SecondRangeFetched ==
    \E i \in 1..Len(executions) :
        /\ executions[i].fromBlock > startHeight[executions[i].src]
        /\ executions[i].toBlock >= executions[i].fromBlock
        /\ blocknumbers[executions[i].src] = executions[i].toBlock + 1

\* C17: execute changes nothing but the nonce of the event's destination
\* chain: the cursors, the nonce of every other chain (the source chain's
\* too) and the start heights are as before, whether it succeeds or fails.
ExecuteFrame ==
    [][(pc \in {"exec", "sending"}) =>
          (/\ blocknumbers' = blocknumbers
           /\ startHeight' = startHeight
           /\ nonce0' = nonce0
           /\ \A c \in Chains :
                 (c # logs[logPos].dest) => (nonce'[c] = nonce[c]))]_vars

\* an event was relayed from one chain to another: the destination's nonce
\* has moved, the source's has not
RelayedAcrossChains ==
    \E i \in OkExecs :
        /\ executions[i].src # executions[i].dest
        /\ nonce[executions[i].src] = nonce0[executions[i].src]
        /\ nonce[executions[i].dest] = nonce0[executions[i].dest] + 1

\* the receipt of the event execute is about to handle holds a number of
\* Message logs other than one
NotOneMessageLog ==
    \E t \in txs :
        /\ t.id = logs[logPos].tx
        /\ Cardinality({k \in DOMAIN t.logs :
                           t.logs[k].topic = MessageTopic}) # 1

\* C18: execute submits only when signTransaction yields exactly one
\* signature; for a receipt with another number of Message logs it fails
\* before a transaction is built: nothing is broadcast and no nonce changes.
SubmitsOnlySingleMessage ==
    [][(pc = "exec" /\ NotOneMessageLog) =>
          (/\ pc' # "sending"
           /\ inflight' = inflight
           /\ nonce' = nonce)]_vars

\* execute was called for a receipt with two Message logs and raised at the
\* count of the signatures
TwoMessageReceiptRejected ==
    /\ pc = "crashed"
    /\ inflight = [c \in Chains |-> 0]
    /\ \E i \in 1..Len(executions) :
          /\ executions[i].outcome = "MessageCount"
          /\ executions[i].calls = 2
          /\ executions[i].nonce = -1
          /\ nonce[executions[i].dest] =
                executions[i].n0 + executions[i].rank - 1

\* C15: when the log query service enforces a maximum block span MaxSpan,
\* every log query the poller issues covers at most MaxSpan blocks, a wider
\* range being split into consecutive sub-ranges.
QueriesWithinSpan ==
    [][PollStep =>
          LET chain == ChainOrder[cur]
              queries == LogQueries(chain, blocknumbers[chain], height[chain])
          IN  RangeNonEmpty(blocknumbers[chain], height[chain]) =>
                \A k \in DOMAIN queries :
                    queries[k].toBlock - queries[k].fromBlock + 1
                        <= MaxSpan]_vars

\* the bytes of the subject that was signed
SubjectBytes == fromhex(codec.out)

SignatureBlobPacked65 ==
    (codec.op = "signature" /\ codec.stage = "done") =>
        /\ Len(codec.out) = 1 + 2 * WordLen
        /\ codec.out[1] = codec.v
        /\ Slice(codec.out, 1, 1 + WordLen) = codec.r
        /\ Slice(codec.out, 1 + WordLen, 1 + 2 * WordLen) = codec.s

\* C14: the signature is three 32-byte words, 96 bytes in all: the recovery
\* id as a big-endian number, then r, then s.
SignatureBlobWords ==
    (codec.op = "signature" /\ codec.stage = "done") =>
        /\ Len(codec.out) = 3 * WordLen
        /\ Slice(codec.out, 0, WordLen - 1) = Zeros(WordLen - 1)
        /\ codec.out[WordLen] = codec.v
        /\ Slice(codec.out, WordLen, 2 * WordLen) = codec.r
        /\ Slice(codec.out, 2 * WordLen, 3 * WordLen) = codec.s

\* a signature with different r and s was encoded
SignatureEncoded ==
    /\ codec.op = "signature"
    /\ codec.stage = "done"
    /\ codec.r # codec.s
    /\ codec.out # <<>>

\* the fields of the decoded payload, but _who, are the ones constructed
\* from, and there is no custom data
PayloadFieldsBack ==
    LET d == codec.decoded
    IN  /\ d._context = codec.context
        /\ d._fromPool = codec.from
        /\ d._toPool = codec.to
        /\ d._U = codec.U
        /\ d._assetIndex = codec.assetIndex
        /\ d._minOut = codec.minOut
        /\ d._escrowAmount = codec.escrowAmount
        /\ d._escrowToken = codec.escrowToken
        /\ d.customDataLength = 0
        /\ d._customDataTarget = "None"
        /\ d._customData = "None"

\* a payload with an even context byte was constructed and decoded
PayloadDecoded ==
    /\ codec.op = "payload"
    /\ codec.stage = "done"
    /\ codec.context % 2 = 0

\* C19 as stated: decodePayload(payloadConstructor(...)) returns every field
\* it was constructed from, the 32-byte _who too.
PayloadRoundTrip ==
    PayloadDecoded =>
        /\ PayloadFieldsBack
        /\ left_pad(codec.decoded._who, WordLen) = codec.who

\* C19: decodePayload(payloadConstructor(...)) returns every field it was
\* constructed from, but of the 32-byte _who only the address in its last 20
\* bytes.
PayloadRoundTripAddress ==
    PayloadDecoded =>
        /\ PayloadFieldsBack
        /\ Len(codec.decoded._who) = AddressLen
        /\ codec.decoded._who = Slice(codec.who, WordLen - AddressLen, WordLen)

\* a payload was decoded whose _who has bytes outside the address
PayloadWithWideWho ==
    /\ PayloadDecoded
    /\ \E i \in 1..(WordLen - AddressLen) : codec.who[i] # 0
    /\ codec.U # 0

====
